---- MODULE Spec2Model ----
(***************************************************************************)
(* State-machine model of PublishAction (rush publish),                    *)
(* apps/rush-lib/src/cli/actions/PublishAction.ts.                         *)
(*                                                                         *)
(* One run of PublishAction.run() is modelled.  The external collaborators *)
(* (PublishGit, PublishUtilities.execCommand, Npm.publishedVersions,       *)
(* ChangeManager, ChangelogGenerator, FileSystem) are modelled by the      *)
(* calls the action makes to them: every call is appended to `log`, and    *)
(* every call may throw, which aborts the run because PublishAction has no *)
(* try/catch.  Values the collaborators return (the change list, the       *)
(* published versions, hasUncommittedChanges, the file system state) are   *)
(* drawn from small sets at the point of the call.                         *)
(*                                                                         *)
(* run() is modelled from the point where PolicyValidator.validatePolicy   *)
(* has returned.  Parameters that are only handed on to a collaborator     *)
(* (--apply, --add-commit-details, --npm-auth-token, --prerelease-name,    *)
(* --suffix, the name of the target branch) do not steer PublishAction and *)
(* are left out of `flags`.                                                *)
(*                                                                         *)
(* Every record is written with its fields in the order of their first     *)
(* appearance in this module, the order in which TLC keeps them.           *)
(***************************************************************************)
EXTENDS Integers, Sequences, FiniteSets, TLC

VARIABLES
    flags,              \* the parsed command line parameters
    allPackages,        \* rushConfiguration.projectsByName
    orderedChanges,     \* changeManager.changes
    hotfixTagOverride,  \* this._hotfixTagOverride ("" = undefined)
    updated,            \* local `updated` of _publishAll
    apiInput,           \* what _updateAPIFile last read from the file system
    i,                  \* index of the loop in progress
    pc,                 \* position in run()
    error,              \* "" or the kind of the error thrown
    log,                \* calls made to the collaborators, in order
    console             \* diagnostics printed with console.log

vars == <<flags, allPackages, orderedChanges, hotfixTagOverride, updated,
          apiInput, i, pc, error, log, console>>

-----------------------------------------------------------------------------
(* Bounds and input sets *)

\* longest change list
MaxChanges == 2

\* names of the projects of the repository, in the iteration order of the Map
ProjectNames == <<"a", "b">>

\* a package name that has change files but no project
UnknownName == "c"

ChangeNames == {ProjectNames[k] : k \in 1..Len(ProjectNames)} \cup {UnknownName}

\* version in package.json of every project, and newVersion of every change
CurrentVersion == "1.0.0"
NewVersion == "1.1.0"
Versions == {CurrentVersion, NewVersion}

TargetBranch == "target"
TempBranch == "publish-temp"

\* enum ChangeType of api/ChangeManagement
ChangeType ==
    [none |-> 0, dependency |-> 1, patch |-> 2, minor |-> 3, major |-> 4, hotfix |-> 5]

\* change types drawn for the records of a change list
ChangeTypeInputs ==
    {ChangeType.none, ChangeType.dependency, ChangeType.patch, ChangeType.hotfix}

ReleaseTypes == {"", "internal", "public", "beta", "rc"}

FlagSpace ==
    [regenerateChangelogs : BOOLEAN,
     includeAll : BOOLEAN,
     pack : BOOLEAN,
     releaseFolder : {"", "out"},
     releaseType : ReleaseTypes,
     registryUrl : {"", "https://r"},
     publish : BOOLEAN,
     force : BOOLEAN,
     npmTag : {"", "next"},
     versionPolicy : {"", "policyA"}]

\* the projects: shouldPublish varies, the version policy is fixed by name
PolicyOf(name) == IF name = "a" THEN "policyA" ELSE ""

ProjectSet == {ProjectNames[k] : k \in 1..Len(ProjectNames)}

PackageMaps ==
    {[n \in ProjectSet |->
        [packageName |-> n, shouldPublish |-> sp[n],
         versionPolicyName |-> PolicyOf(n), version |-> CurrentVersion]]
     : sp \in [ProjectSet -> BOOLEAN]}

ChangeRecords ==
    [packageName : ChangeNames, changeType : ChangeTypeInputs, newVersion : {NewVersion}]

\* change lists hold at most one record per package
ChangeLists ==
    {cs \in UNION {[1..n -> ChangeRecords] : n \in 0..MaxChanges} :
        \A j, k \in 1..Len(cs) : j # k => cs[j].packageName # cs[k].packageName}

\* lists Npm.publishedVersions may return
RegistryAnswers == {<<>>, <<NewVersion>>, <<NewVersion, CurrentVersion>>}

\* the most files the type-specific source folder holds
MaxFiles == 1

FileNames == <<"x.d.ts", "y.d.ts">>

\* what FileSystem.readFolder may return for the source folder
FolderContents == {SubSeq(FileNames, 1, n) : n \in 0..MaxFiles}

\* what _updateAPIFile finds on disk
ApiInputs ==
    [configExists : BOOLEAN, generateDtsRollup : BOOLEAN, dtsRollupTrimming : BOOLEAN,
     fromExists : BOOLEAN, toExists : BOOLEAN, fileNames : FolderContents]

NoApiInput ==
    [configExists |-> FALSE, generateDtsRollup |-> FALSE, dtsRollupTrimming |-> FALSE,
     fromExists |-> FALSE, toExists |-> FALSE, fileNames |-> <<>>]

-----------------------------------------------------------------------------
(* Calls to the collaborators *)

Call(op, target) ==
    [version |-> "", op |-> op, target |-> target, exec |-> TRUE,
     tag |-> "", flag |-> FALSE, versions |-> <<>>]

\* git.checkout(branchName, createBranch)
GitCheckout(branch, createBranch) == [Call("checkout", branch) EXCEPT !.flag = createBranch]

\* git.deleteBranch(branchName, hasRemote = true)
GitDeleteBranch(branch, hasRemote) == [Call("deleteBranch", branch) EXCEPT !.flag = hasRemote]

\* git.addTag given the version of package.json whatever version it is handed
GitAddTagCurrentVersion(shouldExecute, packageName, version) ==
    [Call("addTag", packageName) EXCEPT !.exec = shouldExecute, !.version = CurrentVersion]

\* git.addTag(shouldExecute, packageName, packageVersion)
GitAddTag(shouldExecute, packageName, version) ==
    [Call("addTag", packageName) EXCEPT !.exec = shouldExecute, !.version = version]

\* Npm.publishedVersions(packageName, projectFolder, env) returning `versions`
PublishedVersions(packageName, versions) ==
    [Call("publishedVersions", packageName) EXCEPT !.versions = versions]

\* PublishUtilities.execCommand(shouldExecute, tool, ['publish', ...], packagePath, env)
ExecPublish(shouldExecute, packageName, tag, force) ==
    [Call("publish", packageName) EXCEPT !.exec = shouldExecute, !.tag = tag, !.flag = force]

\* PublishUtilities.execCommand(shouldExecute, tool, ['pack'], projectFolder, env)
ExecPack(shouldExecute, packageName) ==
    [Call("pack", packageName) EXCEPT !.exec = shouldExecute]

\* console.log of a message about a package
Say(message, packageName) == [packageName |-> packageName, message |-> message]

\* an error handler that rolls the temp branch back instead of propagating
ThrowThenCleanUp(kind) == pc' = "deleteTemp" /\ error' = kind

\* an error thrown inside run() rejects the promise: nothing catches it
Throw(kind) == pc' = "error" /\ error' = kind

\* The calls are made in order.  Either all of them return and the handler goes
\* on with `ok`, or one of them throws after the ones before it returned and
\* the handler is left with `ko`.
Perform(calls, ok, ko) ==
    \/ /\ log' = log \o calls
       /\ ok
    \/ \E k \in 1..Len(calls) :
          /\ log' = log \o SubSeq(calls, 1, k)
          /\ Throw("command")
          /\ ko

Goto(next) == pc' = next /\ error' = error

-----------------------------------------------------------------------------
(* Pure helpers of PublishAction *)

RECURSIVE IndexFrom(_, _, _)
IndexFrom(list, x, k) ==
    IF k > Len(list) THEN -1
    ELSE IF list[k] = x THEN k - 1
    ELSE IndexFrom(list, x, k + 1)

\* Array.prototype.indexOf
IndexOf(list, x) == IndexFrom(list, x, 1)

\* changeManager.hasChanges()
HasChanges(changes) == Len(changes) > 0

\* Map.prototype.has
Has(packageName) == packageName \in DOMAIN allPackages

\* _validate without the rule that --pack needs --include-all
ValidateWithoutPackRule(f) ==
    /\ ~(f.releaseFolder # "" /\ ~f.pack)
    /\ ~(f.releaseType # "" /\ ~f.pack)
    /\ ~(f.registryUrl # "" /\ f.pack)

\* _validate: TRUE when no error is thrown
Validate(f) ==
    /\ ~(f.pack /\ ~f.includeAll)
    /\ ~(f.releaseFolder # "" /\ ~f.pack)
    /\ ~(f.releaseType # "" /\ ~f.pack)
    /\ ~(f.registryUrl # "" /\ f.pack)

\* the rank check written against ChangeType.none
AboveNone(change) ==
    change.changeType # 0 /\ change.changeType > ChangeType.none

\* change.changeType && change.changeType > ChangeType.dependency
AboveDependency(change) ==
    change.changeType # 0 /\ change.changeType > ChangeType.dependency

\* the tag condition without the registry test
ShouldTagIgnoringRegistry == flags.publish

\* !!this._publish.value && !this._registryUrl.value
ShouldTag == flags.publish /\ flags.registryUrl = ""

\* _packageExists taking any published version for the current one
PackageExistsAnyVersion(packageConfig, publishedVersions) ==
    Len(publishedVersions) > 0

\* _packageExists, given the list Npm.publishedVersions returned
PackageExists(packageConfig, publishedVersions) ==
    IndexOf(publishedVersions, packageConfig.version) >= 0

\* the --tag argument of _npmPublish ("" = none)
PublishTag ==
    IF flags.npmTag # "" THEN flags.npmTag
    ELSE IF hotfixTagOverride # "" THEN hotfixTagOverride
    ELSE ""

\* _npmPublish without the shouldPublish test
NpmPublishUnconditional(packageName) ==
    <<ExecPublish(flags.publish, packageName, PublishTag, flags.force)>>

\* _npmPublish tagging the package right after publishing it
NpmPublishThenTag(packageName) ==
    IF allPackages[packageName].shouldPublish
    THEN <<ExecPublish(flags.publish, packageName, PublishTag, flags.force),
           GitAddTag(ShouldTag, packageName, NewVersion)>>
    ELSE <<>>

\* _npmPublish: the calls it makes
NpmPublish(packageName) ==
    IF allPackages[packageName].shouldPublish
    THEN <<ExecPublish(flags.publish, packageName, PublishTag, flags.force)>>
    ELSE <<>>

\* a hotfix scan that looks at the first record only
HotfixOverrideFirstOnly(changes) ==
    IF Len(changes) > 0 /\ changes[1].changeType = ChangeType.hotfix
    THEN "hotfix" ELSE hotfixTagOverride

\* the hotfix scan of _publishChanges
HotfixOverride(changes) ==
    IF \E k \in 1..Len(changes) : changes[k].changeType = ChangeType.hotfix
    THEN "hotfix" ELSE hotfixTagOverride

\* the condition of _publishAll without the version policy filter
QualifiesIgnoringPolicy(packageConfig) == packageConfig.shouldPublish

\* the condition of _publishAll for a project to be handled
Qualifies(packageConfig) ==
    /\ packageConfig.shouldPublish
    /\ (flags.versionPolicy = "" \/ flags.versionPolicy = packageConfig.versionPolicyName)

-----------------------------------------------------------------------------
(* run() *)

Init ==
    /\ flags \in FlagSpace
    /\ allPackages \in PackageMaps
    /\ orderedChanges = <<>>
    /\ hotfixTagOverride = ""
    /\ updated = FALSE
    /\ apiInput = NoApiInput
    /\ i = 1
    /\ pc = "run"
    /\ error = ""
    /\ log = <<>>
    /\ console = <<>>

\* run() regenerating the changelogs and going on instead of returning
RunRegenerateFallingThrough ==
    /\ pc = "run"
    /\ flags.regenerateChangelogs
    /\ Perform(<<Call("regenerateChangelogs", "")>>, Goto("all"), TRUE)
    /\ console' = Append(console, Say("Regenerating changelogs", ""))
    /\ UNCHANGED <<flags, allPackages, orderedChanges, hotfixTagOverride, updated, apiInput, i>>

\* run(), --regenerate-changelogs given
RunRegenerate ==
    /\ pc = "run"
    /\ flags.regenerateChangelogs
    /\ Perform(<<Call("regenerateChangelogs", "")>>, Goto("returned"), TRUE)
    /\ console' = Append(console, Say("Regenerating changelogs", ""))
    /\ UNCHANGED <<flags, allPackages, orderedChanges, hotfixTagOverride, updated, apiInput, i>>

\* run(), _validate() throws
RunInvalid ==
    /\ pc = "run"
    /\ ~flags.regenerateChangelogs
    /\ ~Validate(flags)
    /\ Throw("config")
    /\ UNCHANGED <<flags, allPackages, orderedChanges, hotfixTagOverride, updated,
                   apiInput, i, log, console>>

\* run(), --include-all given: _publishAll starts
RunPublishAll ==
    /\ pc = "run"
    /\ ~flags.regenerateChangelogs
    /\ Validate(flags)
    /\ flags.includeAll
    /\ Goto("all")
    /\ i' = 1
    /\ updated' = FALSE
    /\ console' = Append(console, Say("Rush publish starts with includeAll", ""))
    /\ UNCHANGED <<flags, allPackages, orderedChanges, hotfixTagOverride, apiInput, log>>

\* going on as if the change list always had changes
AfterLoadAlwaysPublishes(hasChanges) == "checkoutTemp"

\* the branch _publishChanges takes on changeManager.hasChanges()
AfterLoad(hasChanges) == IF hasChanges THEN "checkoutTemp" ELSE "finish"

\* run(), no --include-all: _publishChanges starts with changeManager.load
RunPublishChanges ==
    /\ pc = "run"
    /\ ~flags.regenerateChangelogs
    /\ Validate(flags)
    /\ ~flags.includeAll
    /\ \E changes \in ChangeLists :
          Perform(<<Call("load", "")>>,
                  /\ orderedChanges' = changes
                  /\ Goto(AfterLoad(HasChanges(changes))),
                  UNCHANGED orderedChanges)
    /\ UNCHANGED <<flags, allPackages, hotfixTagOverride, updated, apiInput, i, console>>

\* console.log('Rush publish finished successfully.')
Finish ==
    /\ pc = "finish"
    /\ Goto("finished")
    /\ console' = Append(console, Say("Rush publish finished successfully.", ""))
    /\ UNCHANGED <<flags, allPackages, orderedChanges, hotfixTagOverride, updated,
                   apiInput, i, log>>

-----------------------------------------------------------------------------
(* _publishChanges *)

\* a step of _publishChanges that is one call to a collaborator
Step(at, call, next) ==
    /\ pc = at
    /\ Perform(<<call>>, Goto(next), TRUE)
    /\ UNCHANGED <<flags, allPackages, orderedChanges, hotfixTagOverride, updated,
                   apiInput, i, console>>

CheckoutTemp == Step("checkoutTemp", GitCheckout(TempBranch, TRUE), "apply")

Apply == Step("apply", Call("apply", ""), "updateChangelog")

UpdateChangelog == Step("updateChangelog", Call("updateChangelog", ""), "hasUncommitted")

\* committing whether or not there are uncommitted changes
AfterApplyAlwaysCommit(uncommitted) == "addChanges"

\* the branch _publishChanges takes on VersionControl.hasUncommittedChanges()
AfterApply(uncommitted) == IF uncommitted THEN "addChanges" ELSE "abandonCheckout"

\* VersionControl.hasUncommittedChanges() returning `uncommitted`
HasUncommittedChanges ==
    /\ pc = "hasUncommitted"
    /\ \E uncommitted \in BOOLEAN :
          Perform(<<[Call("hasUncommittedChanges", "") EXCEPT !.flag = uncommitted]>>,
                  Goto(AfterApply(uncommitted)), TRUE)
    /\ UNCHANGED <<flags, allPackages, orderedChanges, hotfixTagOverride, updated,
                   apiInput, i, console>>

AddChanges == Step("addChanges", Call("addChanges", ""), "commit")

Commit == Step("commit", Call("commit", ""), "pushTemp")

PushTemp == Step("pushTemp", Call("push", TempBranch), "hotfixScan")

\* the loop that sets _hotfixTagOverride
HotfixScan ==
    /\ pc = "hotfixScan"
    /\ hotfixTagOverride' = HotfixOverride(orderedChanges)
    /\ Goto("publish")
    /\ i' = 1
    /\ UNCHANGED <<flags, allPackages, orderedChanges, updated, apiInput, log, console>>

\* where the publish loop goes after the record at i
AfterPublish ==
    /\ Goto(IF i < Len(orderedChanges) THEN "publish" ELSE "tag")
    /\ i' = IF i < Len(orderedChanges) THEN i + 1 ELSE 1

\* one iteration of the publish loop of _publishChanges
PublishChange ==
    /\ pc = "publish"
    /\ LET change == orderedChanges[i]
           project == allPackages[change.packageName]
       IN  \/ /\ ~AboveDependency(change)
              /\ AfterPublish
              /\ UNCHANGED <<log, console>>
           \/ /\ AboveDependency(change)
              /\ ~Has(change.packageName)
              /\ AfterPublish
              /\ console' = Append(console, Say("Skip. Failed to find its project.", change.packageName))
              /\ UNCHANGED log
           \/ /\ AboveDependency(change)
              /\ Has(change.packageName)
              /\ \E versions \in RegistryAnswers :
                    LET query == PublishedVersions(change.packageName, versions)
                    IN  IF PackageExists(project, versions)
                        THEN Perform(<<query>>,
                                     /\ AfterPublish
                                     /\ console' = Append(console,
                                                         Say("Skip. Package exists.", change.packageName)),
                                     UNCHANGED <<i, console>>)
                        ELSE Perform(<<query>> \o NpmPublish(change.packageName),
                                     AfterPublish /\ UNCHANGED console,
                                     UNCHANGED <<i, console>>)
    /\ UNCHANGED <<flags, allPackages, orderedChanges, hotfixTagOverride, updated, apiInput>>

\* where the loop of _gitAddTags goes after the record at i
AfterTag ==
    /\ Goto(IF i < Len(orderedChanges) THEN "tag" ELSE "pushTags")
    /\ i' = IF i < Len(orderedChanges) THEN i + 1 ELSE 1

\* one iteration of the loop of _gitAddTags
GitAddTags ==
    /\ pc = "tag"
    /\ LET change == orderedChanges[i]
           project == allPackages[change.packageName]
       IN  \/ /\ ~AboveDependency(change)
              /\ AfterTag
              /\ UNCHANGED log
           \/ /\ AboveDependency(change)
              /\ ~Has(change.packageName)
              /\ Throw("TypeError")
              /\ UNCHANGED <<i, log>>
           \/ /\ AboveDependency(change)
              /\ Has(change.packageName)
              /\ ~project.shouldPublish
              /\ AfterTag
              /\ UNCHANGED log
           \/ /\ AboveDependency(change)
              /\ Has(change.packageName)
              /\ project.shouldPublish
              /\ Perform(<<GitAddTag(ShouldTag, change.packageName, change.newVersion)>>,
                         AfterTag, UNCHANGED i)
    /\ UNCHANGED <<flags, allPackages, orderedChanges, hotfixTagOverride, updated,
                   apiInput, console>>

PushTags == Step("pushTags", Call("push", TempBranch), "checkoutTarget")

\* merging without pulling the target branch first
CheckoutTargetWithoutPull == Step("checkoutTarget", GitCheckout(TargetBranch, FALSE), "merge")

CheckoutTarget == Step("checkoutTarget", GitCheckout(TargetBranch, FALSE), "pull")

Pull == Step("pull", Call("pull", ""), "merge")

Merge == Step("merge", Call("merge", TempBranch), "pushTarget")

PushTarget == Step("pushTarget", Call("push", TargetBranch), "deleteTemp")

DeleteTemp == Step("deleteTemp", GitDeleteBranch(TempBranch, TRUE), "finish")

AbandonCheckout == Step("abandonCheckout", GitCheckout(TargetBranch, FALSE), "abandonDelete")

AbandonDelete == Step("abandonDelete", GitDeleteBranch(TempBranch, FALSE), "finish")

-----------------------------------------------------------------------------
(* _publishAll *)

\* _updateAPIFile copying without looking for the internal folder
UpdateAPIFileWithoutTargetCheck(packageName, api) ==
    IF /\ api.configExists
       /\ api.generateDtsRollup
       /\ api.dtsRollupTrimming
       /\ flags.releaseType \in {"public", "beta"}
       /\ api.fromExists
    THEN <<[Call("copyFiles", packageName) EXCEPT !.tag = flags.releaseType]>>
    ELSE <<>>

\* _updateAPIFile: the calls it makes, given what it finds on disk
UpdateAPIFile(packageName, api) ==
    IF /\ api.configExists
       /\ api.generateDtsRollup
       /\ api.dtsRollupTrimming
       /\ flags.releaseType \in {"public", "beta"}
       /\ api.fromExists
       /\ api.toExists
    THEN <<[Call("copyFiles", packageName) EXCEPT !.tag = flags.releaseType]>>
    ELSE <<>>

\* _updateAPIFile: the lines it prints when it copies every file of the folder
CopiedLines(packageName, api) ==
    [k \in 1..Len(api.fileNames) |-> Say("Copied file " \o api.fileNames[k], packageName)]

\* _npmPack doing nothing on a dry run
NpmPackSkippingDryRun(packageName, api) ==
    IF flags.publish
    THEN (IF flags.releaseType # "" /\ flags.releaseType # "internal"
          THEN UpdateAPIFile(packageName, api) ELSE <<>>)
         \o <<ExecPack(flags.publish, packageName),
              [Call("move", packageName) EXCEPT !.tag = flags.releaseFolder]>>
    ELSE <<>>

\* _npmPack after the release type was accepted: the calls it makes
NpmPack(packageName, api) ==
    (IF flags.releaseType # "" /\ flags.releaseType # "internal"
     THEN UpdateAPIFile(packageName, api) ELSE <<>>)
    \o <<ExecPack(flags.publish, packageName)>>
    \o (IF flags.publish
        THEN <<[Call("move", packageName) EXCEPT !.tag = flags.releaseFolder]>>
        ELSE <<>>)

\* the release type check of _npmPack: TRUE when no error is thrown
ReleaseTypeAccepted ==
    ~(/\ flags.releaseType # ""
      /\ flags.releaseType # "internal"
      /\ flags.releaseType # "public"
      /\ flags.releaseType # "beta")

\* pushing the target branch whether or not a package was published
AfterAllAlwaysPush(isUpdated) ==
    /\ Goto(IF i < Len(ProjectNames) THEN "all" ELSE "pushAll")
    /\ i' = IF i < Len(ProjectNames) THEN i + 1 ELSE 1
    /\ updated' = isUpdated

\* where the forEach of _publishAll goes after the project at i
AfterAll(isUpdated) ==
    /\ Goto(IF i < Len(ProjectNames) THEN "all"
            ELSE IF isUpdated THEN "pushAll" ELSE "finish")
    /\ i' = IF i < Len(ProjectNames) THEN i + 1 ELSE 1
    /\ updated' = isUpdated

\* _publishAll tagging a project before publishing it
PublishAndTagReversed(packageName, before) ==
    Perform(before \o <<GitAddTag(ShouldTag, packageName, allPackages[packageName].version)>>
                   \o NpmPublish(packageName),
            AfterAll(TRUE) /\ UNCHANGED console,
            UNCHANGED <<i, updated, console>>)

\* _publishAll publishes and tags one project
PublishAndTag(packageName, before) ==
    Perform(before \o NpmPublish(packageName)
                   \o <<GitAddTag(ShouldTag, packageName, allPackages[packageName].version)>>,
            AfterAll(TRUE) /\ UNCHANGED console,
            UNCHANGED <<i, updated, console>>)

\* _publishAll packs one project.  The copy of _updateAPIFile prints a line
\* after each file it copied: all of them when it returns, the ones of the
\* files before the failing one when it throws.
PackProject(packageName, api) ==
    LET calls == NpmPack(packageName, api)
        copies == Len(calls) > 0 /\ calls[1].op = "copyFiles"
        lines == IF copies THEN CopiedLines(packageName, api) ELSE <<>>
    IN  \/ /\ log' = log \o calls
           /\ console' = console \o lines
           /\ AfterAll(updated)
        \/ \E k \in 1..Len(calls) :
              /\ log' = log \o SubSeq(calls, 1, k)
              /\ IF copies /\ k = 1
                 THEN \E n \in 0..Len(lines) :
                         /\ n < Len(lines) \/ n = 0
                         /\ console' = console \o SubSeq(lines, 1, n)
                 ELSE console' = console \o lines
              /\ Throw("command")
              /\ UNCHANGED <<i, updated>>

\* one iteration of the forEach of _publishAll
PublishProject ==
    /\ pc = "all"
    /\ LET packageName == ProjectNames[i]
           packageConfig == allPackages[packageName]
       IN  \/ /\ ~Qualifies(packageConfig)
              /\ AfterAll(updated)
              /\ UNCHANGED <<log, console, apiInput>>
           \/ /\ Qualifies(packageConfig)
              /\ flags.pack
              /\ ~ReleaseTypeAccepted
              /\ Throw("config")
              /\ UNCHANGED <<i, updated, log, console, apiInput>>
           \/ /\ Qualifies(packageConfig)
              /\ flags.pack
              /\ ReleaseTypeAccepted
              /\ \E api \in ApiInputs :
                    /\ apiInput' = IF flags.releaseType \in {"public", "beta"} THEN api ELSE apiInput
                    /\ PackProject(packageName, api)
           \/ /\ Qualifies(packageConfig)
              /\ ~flags.pack
              /\ flags.force
              /\ PublishAndTag(packageName, <<>>)
              /\ UNCHANGED apiInput
           \/ /\ Qualifies(packageConfig)
              /\ ~flags.pack
              /\ ~flags.force
              /\ \E versions \in RegistryAnswers :
                    LET query == PublishedVersions(packageName, versions)
                    IN  IF PackageExists(packageConfig, versions)
                        THEN Perform(<<query>>,
                                     /\ AfterAll(updated)
                                     /\ console' = Append(console, Say("Skip. Not updated.", packageName)),
                                     UNCHANGED <<i, updated, console>>)
                        ELSE PublishAndTag(packageName, <<query>>)
              /\ UNCHANGED apiInput
    /\ UNCHANGED <<flags, allPackages, orderedChanges, hotfixTagOverride>>

PushAll == Step("pushAll", Call("push", TargetBranch), "finish")

-----------------------------------------------------------------------------

Next ==
    \/ RunRegenerate
    \/ RunInvalid
    \/ RunPublishAll
    \/ RunPublishChanges
    \/ Finish
    \/ CheckoutTemp
    \/ Apply
    \/ UpdateChangelog
    \/ HasUncommittedChanges
    \/ AddChanges
    \/ Commit
    \/ PushTemp
    \/ HotfixScan
    \/ PublishChange
    \/ GitAddTags
    \/ PushTags
    \/ CheckoutTarget
    \/ Pull
    \/ Merge
    \/ PushTarget
    \/ DeleteTemp
    \/ AbandonCheckout
    \/ AbandonDelete
    \/ PublishProject
    \/ PushAll

Spec == Init /\ [][Next]_vars

-----------------------------------------------------------------------------
(* Vocabulary of the properties *)

\* positions of the log holding a call of operation `op`
Ops(op) == {k \in 1..Len(log) : log[k].op = op}

\* positions of the log holding a call of operation `op` about `target`
OpsOn(op, target) == {k \in Ops(op) : log[k].target = target}

\* a list of published versions that does not hold version v
Absent(versions, v) == \A j \in 1..Len(versions) : versions[j] # v

\* change types that rank above dependency
RealBumps == {ChangeType.patch, ChangeType.minor, ChangeType.major, ChangeType.hotfix}

ChangesMode == pc # "run" /\ ~flags.regenerateChangelogs /\ ~flags.includeAll

\* hasUncommittedChanges answered as `answer`
Uncommitted(answer) == \E k \in Ops("hasUncommittedChanges") : log[k].flag = answer

\* the publish loop of _publishChanges has run to its end and nothing threw
PublishPassDone ==
    /\ ChangesMode
    /\ Uncommitted(TRUE)
    /\ error = ""
    /\ pc \notin {"addChanges", "commit", "pushTemp", "hotfixScan", "publish"}

\* one of the flag combinations _validate is there to reject
InvalidCombination ==
    \/ flags.pack /\ ~flags.includeAll
    \/ flags.releaseFolder # "" /\ ~flags.pack
    \/ flags.releaseType # "" /\ ~flags.pack
    \/ flags.registryUrl # "" /\ flags.pack

IsSkip(line) ==
    line.message \in {"Skip. Failed to find its project.", "Skip. Package exists."}

-----------------------------------------------------------------------------
(* C1 *)

\* C1: in both modes the registry publish operation is invoked for a package
\* only if its descriptor has shouldPublish = TRUE and (the force flag is set
\* or the registry, queried just before, did not list the descriptor's current
\* version).
C1_PublishOnlyIfNeeded ==
    \A k \in Ops("publish") :
        LET name == log[k].target
        IN  /\ name \in DOMAIN allPackages
            /\ allPackages[name].shouldPublish
            /\ \/ flags.force
               \/ /\ k > 1
                  /\ log[k - 1].op = "publishedVersions"
                  /\ log[k - 1].target = name
                  /\ Absent(log[k - 1].versions, allPackages[name].version)

\* publish-all without force: one project skipped as already published,
\* another one published
C1_Witness ==
    /\ pc = "finished"
    /\ flags.includeAll
    /\ ~flags.force
    /\ \E q \in Ops("publishedVersions") :
          ~Absent(log[q].versions, allPackages[log[q].target].version)
    /\ Ops("publish") # {}

-----------------------------------------------------------------------------
(* C2 *)

\* C2: in both modes a tag is created (addTag executes) only when the publish
\* flag is set and no registry URL is configured.
C2_TagOnlyWhenPublishingToDefaultRegistry ==
    \A k \in Ops("addTag") :
        log[k].exec => (flags.publish /\ flags.registryUrl = "")

\* publishing to a custom registry: addTag was called and did not execute
C2_Witness ==
    /\ flags.publish
    /\ flags.registryUrl # ""
    /\ \E k \in Ops("addTag") : ~log[k].exec

-----------------------------------------------------------------------------
(* C3 *)

\* C3: in publish-changes mode every registry query, publish call and tag call
\* is about a package that has a change record ranking above dependency.
C3_OnlyRealBumps ==
    ChangesMode =>
        \A k \in Ops("publishedVersions") \cup Ops("publish") \cup Ops("addTag") :
            \E j \in 1..Len(orderedChanges) :
                /\ orderedChanges[j].packageName = log[k].target
                /\ orderedChanges[j].changeType \in RealBumps

\* a patch and b dependency, both publishable: a was published and tagged
C3_Witness ==
    /\ ChangesMode
    /\ pc = "finished"
    /\ Len(orderedChanges) = 2
    /\ orderedChanges[1].packageName = "a"
    /\ orderedChanges[1].changeType = ChangeType.patch
    /\ orderedChanges[2].packageName = "b"
    /\ orderedChanges[2].changeType = ChangeType.dependency
    /\ allPackages["b"].shouldPublish
    /\ OpsOn("publish", "a") # {}
    /\ OpsOn("addTag", "a") # {}

-----------------------------------------------------------------------------
(* C4 *)

\* C4: in publish-changes mode, once hasUncommittedChanges answered FALSE the
\* log never holds an add, commit, push, pull, merge, publish or tag call, and
\* the run ends with checkout(target) followed by deleteBranch(temp).
C4_NoChangesAbandons ==
    (ChangesMode /\ Uncommitted(FALSE)) =>
        /\ \A k \in 1..Len(log) :
              log[k].op \notin {"addChanges", "commit", "push", "pull", "merge",
                                "publish", "addTag"}
        /\ pc \in {"finish", "finished"} =>
              /\ Len(log) >= 2
              /\ log[Len(log) - 1].op = "checkout"
              /\ log[Len(log) - 1].target = TargetBranch
              /\ log[Len(log)].op = "deleteBranch"
              /\ log[Len(log)].target = TempBranch

C4_Witness ==
    /\ ChangesMode
    /\ Uncommitted(FALSE)
    /\ pc = "finished"

-----------------------------------------------------------------------------
(* C5 *)

\* C5 as stated: a run with an invalid flag combination ends in a configuration
\* error with no call made and nothing printed, whatever the other flags are.
C5_Original ==
    (InvalidCombination /\ pc # "run") =>
        (pc = "error" /\ error = "config" /\ log = <<>> /\ console = <<>>)

\* C5: a run without --regenerate-changelogs and with an invalid flag
\* combination ends in a configuration error with no call made and nothing
\* printed, whatever the other flags are.
C5_InvalidFlagsFailFast ==
    (InvalidCombination /\ ~flags.regenerateChangelogs /\ pc # "run") =>
        (pc = "error" /\ error = "config" /\ log = <<>> /\ console = <<>>)

\* --pack without --include-all, with --publish and --force given as well
C5_Witness ==
    /\ flags.pack
    /\ ~flags.includeAll
    /\ flags.publish
    /\ flags.force
    /\ pc = "error"
    /\ error = "config"

-----------------------------------------------------------------------------
(* C6 *)

\* C6: in publish-changes mode a skip in the publish loop (no descriptor, or
\* version already published) is not fatal: unless a collaborator call throws,
\* the run is not aborted.
C6_SkipsAreNotFatal ==
    (ChangesMode /\ error # "command" /\ \E k \in 1..Len(console) : IsSkip(console[k]))
        => pc # "error"

-----------------------------------------------------------------------------
(* C7 *)

\* C7: in publish-changes mode no tag call is made while the publish loop is
\* running, and no registry query or publish call follows a tag call.
C7_TagsAfterAllPublishes ==
    ChangesMode =>
        /\ pc = "publish" => Ops("addTag") = {}
        /\ \A t \in Ops("addTag") :
              \A k \in Ops("publish") \cup Ops("publishedVersions") : k < t
        /\ (pc = "error" /\ Len(log) > 0 /\ log[Len(log)].op \in {"publish", "publishedVersions"})
              => Ops("addTag") = {}

\* the second publish call of the pass threw after the first one returned
C7_Witness ==
    /\ ChangesMode
    /\ pc = "error"
    /\ flags.publish
    /\ Cardinality(Ops("publish")) = 2
    /\ log[Len(log)].op = "publish"

-----------------------------------------------------------------------------
(* C8 *)

\* C8: in publish-changes mode, once a step has thrown no further call is made
\* and the position does not move; after a failure between the first push of
\* the temp branch and the merge, the log holds no deleteBranch, no merge and
\* no push of the target branch.
C8_FailureAborts ==
    [][ /\ (ChangesMode /\ error # "") => (log' = log /\ pc' = pc)
        /\ (/\ ChangesMode'
            /\ error' # ""
            /\ OpsOn("push", TempBranch)' # {}
            /\ (Ops("merge")' = {} \/ log'[Len(log')].op = "merge"))
           => /\ Ops("deleteBranch")' = {}
              /\ OpsOn("push", TargetBranch)' = {}
              /\ Ops("merge")' \subseteq {Len(log')} ]_vars

\* pull threw: the temp branch is pushed and still there
C8_Witness ==
    /\ ChangesMode
    /\ error = "command"
    /\ pc = "error"
    /\ log[Len(log)].op = "pull"
    /\ OpsOn("push", TempBranch) # {}

-----------------------------------------------------------------------------
(* C9 *)

\* whether the registry was asked about `name` and did not list its version
QueriedAbsent(name) ==
    \E q \in OpsOn("publishedVersions", name) :
        Absent(log[q].versions, allPackages[name].version)

\* C9 as stated: after the publish pass, a record above dependency has a
\* publish call exactly when its package has a descriptor whose version the
\* registry did not list.
C9_Original ==
    PublishPassDone =>
        \A j \in 1..Len(orderedChanges) :
            LET name == orderedChanges[j].packageName
            IN  orderedChanges[j].changeType \in RealBumps =>
                    ((OpsOn("publish", name) # {})
                        <=> (name \in DOMAIN allPackages /\ QueriedAbsent(name)))

\* C9: after the publish pass, a record above dependency has a publish call
\* exactly when its package has a descriptor with shouldPublish = TRUE whose
\* version the registry did not list.
C9_PublishesEveryNewVersion ==
    PublishPassDone =>
        \A j \in 1..Len(orderedChanges) :
            LET name == orderedChanges[j].packageName
            IN  orderedChanges[j].changeType \in RealBumps =>
                    ((OpsOn("publish", name) # {})
                        <=> (/\ name \in DOMAIN allPackages
                             /\ allPackages[name].shouldPublish
                             /\ QueriedAbsent(name)))

\* the registry listed another version only, and the package was published
C9_Witness ==
    /\ PublishPassDone
    /\ \E k \in Ops("publish") :
          /\ log[k - 1].op = "publishedVersions"
          /\ Len(log[k - 1].versions) > 0

-----------------------------------------------------------------------------
(* C10 *)

\* C10: in publish-changes mode every publish call carries the explicit tag
\* when one was given, else "hotfix" when the change list holds a hotfix
\* record at any position, else no tag.
C10_HotfixTag ==
    ChangesMode =>
        \A k \in Ops("publish") :
            log[k].tag =
                IF flags.npmTag # "" THEN flags.npmTag
                ELSE IF \E j \in 1..Len(orderedChanges) :
                            orderedChanges[j].changeType = ChangeType.hotfix
                     THEN "hotfix"
                     ELSE ""

\* the hotfix record is the second one, and the first one, a patch, was
\* published under the tag "hotfix"
C10_Witness ==
    /\ ChangesMode
    /\ flags.npmTag = ""
    /\ Len(orderedChanges) = 2
    /\ orderedChanges[1].changeType = ChangeType.patch
    /\ orderedChanges[2].changeType = ChangeType.hotfix
    /\ \E k \in OpsOn("publish", orderedChanges[1].packageName) : log[k].tag = "hotfix"

-----------------------------------------------------------------------------
(* Vocabulary of the properties about _publishAll *)

AllMode == pc # "run" /\ ~flags.regenerateChangelogs /\ flags.includeAll

\* the descriptor of `name` qualifies for publish-all
QualifiesForAll(name) ==
    /\ name \in DOMAIN allPackages
    /\ allPackages[name].shouldPublish
    /\ (flags.versionPolicy = "" \/ flags.versionPolicy = allPackages[name].versionPolicyName)

\* operations _publishAll performs for one project
ProjectOps == {"publishedVersions", "publish", "pack", "addTag", "copyFiles", "move"}

-----------------------------------------------------------------------------
(* C11 *)

\* C11: in publish-all mode the target branch is pushed at most once, as the
\* last call of the run and only after a publish call; it is not pushed while
\* the loop over the descriptors is running; when the run has left the loop
\* without an error it was pushed exactly when a package was published; in
\* pack mode it is never pushed.
C11_PushOnceAfterLoop ==
    AllMode =>
        /\ Cardinality(Ops("push")) <= 1
        /\ \A p \in Ops("push") :
              /\ p = Len(log)
              /\ log[p].target = TargetBranch
              /\ Ops("publish") # {}
        /\ pc = "all" => Ops("push") = {}
        /\ pc \in {"finish", "finished"} => (Ops("push") # {} <=> Ops("publish") # {})
        /\ flags.pack => Ops("push") = {}

\* two packages published, one push
C11_Witness ==
    /\ AllMode
    /\ pc = "finished"
    /\ Cardinality(Ops("publish")) = 2
    /\ Cardinality(Ops("push")) = 1

-----------------------------------------------------------------------------
(* C12 *)

\* C12: in publish-all mode every registry query, publish, pack, tag, copy and
\* move call is about a descriptor with shouldPublish = TRUE whose version
\* policy name equals the filter, if a filter was given.
C12_OnlyQualifyingProjects ==
    AllMode =>
        \A k \in 1..Len(log) :
            log[k].op \in ProjectOps => QualifiesForAll(log[k].target)

\* filter policyA: a was published, the publishable b was left alone
C12_Witness ==
    /\ AllMode
    /\ pc = "finished"
    /\ flags.versionPolicy = "policyA"
    /\ allPackages["b"].shouldPublish
    /\ OpsOn("publish", "a") # {}
    /\ \A k \in 1..Len(log) : log[k].target # "b"

-----------------------------------------------------------------------------
(* C13 *)

\* C13: in publish-all mode with pack selected no registry query, publish, tag
\* or push call is made, no project is packed twice, and when the loop has
\* ended without an error every qualifying descriptor was packed once and no
\* other descriptor was packed.
C13_PackInsteadOfPublish ==
    (AllMode /\ flags.pack) =>
        /\ \A k \in 1..Len(log) :
              log[k].op \notin {"publishedVersions", "publish", "addTag", "push"}
        /\ \A n \in ProjectSet : Cardinality(OpsOn("pack", n)) <= 1
        /\ pc \in {"finish", "finished"} =>
              \A n \in ProjectSet :
                  Cardinality(OpsOn("pack", n)) = IF QualifiesForAll(n) THEN 1 ELSE 0

\* both projects packed although force is set
C13_Witness ==
    /\ AllMode
    /\ flags.pack
    /\ flags.force
    /\ pc = "finished"
    /\ Cardinality(Ops("pack")) = 2

-----------------------------------------------------------------------------
(* C14 *)

\* C14: a publish-all run in pack mode whose release type is none of
\* internal, public and beta makes no copy, pack or move call, does not end
\* successfully, and the error it ends in is the configuration error.
C14_InvalidReleaseTypeIsFatal ==
    (AllMode /\ flags.pack /\ ~ReleaseTypeAccepted) =>
        /\ \A k \in 1..Len(log) : log[k].op \notin {"copyFiles", "pack", "move"}
        /\ pc \notin {"finish", "finished"}
        /\ pc = "error" => error = "config"

-----------------------------------------------------------------------------
(* C15 *)

\* the last pack call of the log
LastPack == CHOOSE p \in Ops("pack") : \A q \in Ops("pack") : q <= p

\* the call just before the last pack call copied the declaration files of the
\* project that was packed
CopiedBeforeLastPack ==
    /\ LastPack > 1
    /\ log[LastPack - 1].op = "copyFiles"
    /\ log[LastPack - 1].target = log[LastPack].target
    /\ log[LastPack - 1].tag = flags.releaseType

\* a project was packed with release type public or beta and nothing threw;
\* apiInput is what _updateAPIFile found for the project packed last
PackedWithApiInput ==
    /\ AllMode
    /\ flags.pack
    /\ flags.releaseType \in {"public", "beta"}
    /\ error = ""
    /\ Ops("pack") # {}

\* C15 as stated: the copy precedes the pack call exactly when the config file
\* exists with dtsRollupTrimming enabled and both folders exist.
C15_Original ==
    PackedWithApiInput =>
        (CopiedBeforeLastPack <=>
            /\ apiInput.configExists
            /\ apiInput.dtsRollupTrimming
            /\ apiInput.fromExists
            /\ apiInput.toExists)

\* C15: when packing with release type public or beta, the copy of the
\* declaration files precedes the pack call exactly when the config file
\* exists, generateDtsRollup and dtsRollupTrimming are both enabled in it and
\* both folders exist; in every other case, the absent config file included,
\* there is no copy and the project is packed all the same.
C15_CopyBeforePack ==
    /\ PackedWithApiInput =>
          (CopiedBeforeLastPack <=>
              /\ apiInput.configExists
              /\ apiInput.generateDtsRollup
              /\ apiInput.dtsRollupTrimming
              /\ apiInput.fromExists
              /\ apiInput.toExists)
    /\ (AllMode /\ flags.pack) =>
          \A c \in Ops("copyFiles") :
              /\ flags.releaseType \in {"public", "beta"}
              /\ \A p \in OpsOn("pack", log[c].target) : c < p
              /\ (c < Len(log) => log[c + 1].op = "pack" /\ log[c + 1].target = log[c].target)

\* release type beta, the one file of the source folder was copied, which was
\* reported, and then the project was packed
C15_Witness ==
    /\ PackedWithApiInput
    /\ flags.releaseType = "beta"
    /\ pc = "finished"
    /\ CopiedBeforeLastPack
    /\ \E k \in 1..Len(console) :
          console[k] = Say("Copied file x.d.ts", log[LastPack].target)

\* the config file is absent: no copy, and the project was packed
C15_WitnessNoConfig ==
    /\ PackedWithApiInput
    /\ pc = "finished"
    /\ ~apiInput.configExists
    /\ Ops("copyFiles") = {}

-----------------------------------------------------------------------------
(* C16 *)

\* the version-control, publish and tag calls
IsOrdered(call) ==
    call.op \in {"checkout", "addChanges", "commit", "push", "publish", "addTag",
                 "pull", "merge", "deleteBranch"}

OrderedCalls == SelectSeq(log, IsOrdered)

\* C16: when a publish-changes run that found uncommitted changes has ended,
\* its version-control, publish and tag calls were, in this order,
\* checkout(temp, create), add, commit, push(temp), the publish calls, the tag
\* calls, push(temp), checkout(target), pull, merge(temp), push(target),
\* deleteBranch(temp), the deletion being the last call of the run; and at any
\* moment of such a run a merge or a push of the target branch comes after
\* every publish and tag call, none being made while the two loops run.
C16_OrderOfVersionControl ==
    (ChangesMode /\ Uncommitted(TRUE)) =>
        /\ \A m \in Ops("merge") \cup OpsOn("push", TargetBranch) :
              /\ pc \notin {"publish", "tag"}
              /\ \A k \in Ops("publish") \cup Ops("addTag") : k < m
        /\ pc \in {"finish", "finished"} =>
              LET np == Cardinality(Ops("publish"))
                  nt == Cardinality(Ops("addTag"))
                  c == OrderedCalls
              IN  /\ Len(c) = 10 + np + nt
                  /\ c[1] = GitCheckout(TempBranch, TRUE)
                  /\ c[2].op = "addChanges"
                  /\ c[3].op = "commit"
                  /\ c[4] = Call("push", TempBranch)
                  /\ \A k \in 5..(4 + np) : c[k].op = "publish"
                  /\ \A k \in (5 + np)..(4 + np + nt) : c[k].op = "addTag"
                  /\ c[5 + np + nt] = Call("push", TempBranch)
                  /\ c[6 + np + nt] = GitCheckout(TargetBranch, FALSE)
                  /\ c[7 + np + nt].op = "pull"
                  /\ c[8 + np + nt] = Call("merge", TempBranch)
                  /\ c[9 + np + nt] = Call("push", TargetBranch)
                  /\ c[10 + np + nt] = GitDeleteBranch(TempBranch, TRUE)
                  /\ log[Len(log)] = GitDeleteBranch(TempBranch, TRUE)

\* a finished run that published two packages and tagged both
C16_Witness ==
    /\ ChangesMode
    /\ Uncommitted(TRUE)
    /\ pc = "finished"
    /\ Cardinality(Ops("publish")) = 2
    /\ Cardinality(Ops("addTag")) = 2

-----------------------------------------------------------------------------
(* C17 *)

\* the change record of package `name` asks for a tag
TagDue(name) ==
    \E j \in 1..Len(orderedChanges) :
        /\ orderedChanges[j].packageName = name
        /\ orderedChanges[j].changeType \in RealBumps
        /\ name \in DOMAIN allPackages
        /\ allPackages[name].shouldPublish

\* the loop of _gitAddTags has run to its end
TagPassDone ==
    /\ ChangesMode
    /\ Uncommitted(TRUE)
    /\ pc \in {"pushTags", "checkoutTarget", "pull", "merge", "pushTarget",
               "deleteTemp", "finish", "finished"}

\* C17: in publish-changes mode every tag call is for a package whose change
\* record is above dependency and whose descriptor has shouldPublish = TRUE,
\* it is the only tag call for that package and its version is the newVersion
\* of the record; once the tag loop has run to its end every such package has
\* its tag call, whatever the registry answered and whether or not the package
\* was published.
C17_TagsIgnoreTheRegistry ==
    ChangesMode =>
        /\ \A k \in Ops("addTag") :
              /\ TagDue(log[k].target)
              /\ OpsOn("addTag", log[k].target) = {k}
              /\ \E j \in 1..Len(orderedChanges) :
                    /\ orderedChanges[j].packageName = log[k].target
                    /\ orderedChanges[j].newVersion = log[k].version
        /\ TagPassDone =>
              \A name \in ChangeNames : TagDue(name) => OpsOn("addTag", name) # {}

\* a package the registry already held, not published, yet tagged with the
\* new version
C17_Witness ==
    /\ TagPassDone
    /\ pc = "finished"
    /\ \E name \in ProjectSet :
          /\ \E q \in OpsOn("publishedVersions", name) : ~Absent(log[q].versions, NewVersion)
          /\ OpsOn("publish", name) = {}
          /\ \E t \in OpsOn("addTag", name) : log[t].version = NewVersion

-----------------------------------------------------------------------------
(* C18 *)

\* C18: in publish-changes mode, once the changes were loaded and there is
\* none, the only call the run has made is the load, and the run is ending or
\* has ended successfully.
C18_NothingToPublish ==
    (ChangesMode /\ pc # "error" /\ ~HasChanges(orderedChanges)) =>
        /\ log = <<Call("load", "")>>
        /\ pc \in {"finish", "finished"}
        /\ error = ""

\* the run has ended successfully and only loaded the changes
C18_Witness ==
    /\ ChangesMode
    /\ pc = "finished"
    /\ orderedChanges = <<>>
    /\ log = <<Call("load", "")>>
    /\ console[Len(console)].message = "Rush publish finished successfully."

-----------------------------------------------------------------------------
(* C19 *)

\* C19: in publish-all mode without pack, the call after a publish call is the
\* tag call for the same package with the version of its descriptor, a publish
\* call with no call after it is one that threw, and every tag call comes
\* right after the publish call of its package; when a query, publish or tag
\* call threw, the target branch was not pushed.
C19_TagRightAfterPublish ==
    (AllMode /\ ~flags.pack) =>
        /\ \A k \in Ops("publish") :
              /\ k < Len(log) =>
                    log[k + 1] = GitAddTag(ShouldTag, log[k].target,
                                           allPackages[log[k].target].version)
              /\ k = Len(log) => pc = "error"
        /\ \A t \in Ops("addTag") :
              /\ t > 1
              /\ log[t - 1].op = "publish"
              /\ log[t - 1].target = log[t].target
        /\ (pc = "error" /\ error = "command" /\ Len(log) > 0 /\ log[Len(log)].op # "push") =>
              Ops("push") = {}

\* publishing or tagging b threw after a was published and tagged; no push
C19_Witness ==
    /\ AllMode
    /\ ~flags.pack
    /\ pc = "error"
    /\ Len(log) > 0
    /\ log[Len(log)].target = "b"
    /\ log[Len(log)].op \in {"publish", "addTag"}
    /\ \E k \in OpsOn("publish", "a") :
          k < Len(log) /\ log[k + 1].op = "addTag" /\ log[k + 1].target = "a"
    /\ Ops("push") = {}

-----------------------------------------------------------------------------
(* C20 *)

\* C20: with --regenerate-changelogs, whatever the other flags are, the only
\* call the run makes is the regeneration of the changelogs, after which it
\* has returned, or failed with the error the regeneration threw, never with
\* a configuration error.
C20_RegenerateOnly ==
    (flags.regenerateChangelogs /\ pc # "run") =>
        /\ log = <<Call("regenerateChangelogs", "")>>
        /\ pc \in {"returned", "error"}
        /\ pc = "returned" => error = ""
        /\ pc = "error" => error = "command"

\* returned from a run whose flags _validate would have rejected
C20_Witness ==
    /\ flags.regenerateChangelogs
    /\ pc = "returned"
    /\ InvalidCombination
    /\ flags.publish
    /\ flags.includeAll
    /\ log = <<Call("regenerateChangelogs", "")>>

====
